---- MODULE Spec2Model ----
(***************************************************************************)
(* A model of the form state container `Model` (Model.ts) and of the path  *)
(* accessors `retrieve` / `insert` (util/ObjectUtils.ts).                   *)
(*                                                                         *)
(* JavaScript values are tagged records, so that `===`, `typeof` and       *)
(* truthiness are computed as the language computes them.  A field name    *)
(* ("nested.bar") is the sequence of its dot-separated segments            *)
(* (<<"nested", "bar">>); the empty string is the empty sequence.          *)
(* One step of the model is one run-to-completion call of a public method  *)
(* of the Model, or the settlement of a pending submission promise         *)
(* followed by the rest of the suspended `submit` call.  `log` holds the   *)
(* call and the external effects (callbacks, storage calls, subscriber     *)
(* notifications, the call's result) of the last step, in order.           *)
(***************************************************************************)
EXTENDS Integers, Sequences, FiniteSets, TLC

VARIABLES
  schema,      \* this._schema
  options,     \* this._options (the parts that are data)
  fields,      \* this._fields: name -> ModelField
  utils,       \* this._utils: name -> {parse?, validate?}
  mem,         \* this._mem: {values?, errors?, submitted?}
  state,       \* this._state
  submitting,  \* this._submitting
  store,       \* what the storage driver holds (options.storage)
  pending,     \* the submit calls suspended at `await result`: how many
               \* have seen no `this._mem = {}` since they began (clean),
               \* and how many have (dirty)
  held,        \* the name whose current Field instance an observer holds
  log,         \* the call of the last step and its effects, in order
  util,        \* a call of retrieve or insert: its arguments and, once it
               \* has returned, its result and the input as the call left it
  subs         \* this._subs: the subscribers, in the order of subscription

vars == <<schema, options, fields, utils, mem, state, submitting, store,
          pending, held, log, util, subs>>

-----------------------------------------------------------------------------
(* JavaScript values *)

Undefined == [t |-> "undefined", v |-> ""]
Null == [t |-> "null", v |-> ""]
Str(s) == [t |-> "string", v |-> s]
Bool(b) == [t |-> "boolean", v |-> IF b THEN "true" ELSE "false"]
Fn(id) == [t |-> "function", v |-> id]
Obj(m) == [t |-> "object", m |-> m]
EmptyMap == [k \in {} |-> Undefined]
EmptyObj == Obj(EmptyMap)

\* typeof x
TypeOf(x) == IF x.t = "null" THEN "object" ELSE x.t

\* The conversion of x to a boolean (`if (x)`, `!x`).
Truthy(x) ==
  /\ x.t \notin {"undefined", "null"}
  /\ x # Str("")
  /\ x # Bool(FALSE)

isObject(value) == TypeOf(value) = "object" /\ value # Null

\* obj[k], for an object obj
Get(obj, k) == IF k \in DOMAIN obj.m THEN obj.m[k] ELSE Undefined

\* obj after obj[k] = value
Put(obj, k, value) ==
  Obj([x \in DOMAIN obj.m \cup {k} |-> IF x = k THEN value ELSE obj.m[x]])

\* {...a, ...b}
Spread(a, b) ==
  Obj([x \in DOMAIN a.m \cup DOMAIN b.m |->
         IF x \in DOMAIN b.m THEN b.m[x] ELSE a.m[x]])

-----------------------------------------------------------------------------
(* util/ObjectUtils.ts *)

RECURSIVE retrieveLoop(_, _)
retrieveLoop(result, path) ==
  IF path = <<>> \/ ~isObject(result)
  THEN result
  ELSE retrieveLoop(Get(result, Head(path)), Tail(path))

retrieve(obj, key) == IF Len(key) = 0 THEN obj ELSE retrieveLoop(obj, key)

RECURSIVE insertLoop(_, _, _)
insertLoop(current, path, value) ==
  LET k == Head(path) IN
  IF Len(path) = 1
  THEN Put(current, k, value)
  ELSE LET next == IF isObject(Get(current, k)) THEN Get(current, k)
                   ELSE EmptyObj
       IN  Put(current, k, insertLoop(next, Tail(path), value))

\* The tree insert returns.
insert(obj, key, value) ==
  IF Len(key) = 0 THEN Spread(obj, EmptyObj) ELSE insertLoop(obj, key, value)

\* The tree given to insert as the call leaves it.  `{...obj}` copies the top
\* level only: for a key of several segments the loop walks into the mapping
\* the input holds under the first segment and assigns into it.
insertInput(obj, key, value) ==
  IF Len(key) > 1 /\ isObject(Get(obj, Head(key)))
  THEN insertLoop(obj, key, value)
  ELSE obj

-----------------------------------------------------------------------------
(* The call context: the Model object, the storage driver's content, the   *)
(* observer and the effects so far, threaded through one call.             *)

Ctx ==
  [schema |-> schema, options |-> options, fields |-> fields, utils |-> utils,
   mem |-> mem, state |-> state, submitting |-> submitting, store |-> store,
   pending |-> pending, held |-> held, subs |-> subs, log |-> <<>>]

\* An effect of a call: its kind, the field name and the value it concerns.
Ev(e, n, v) == [e |-> e, n |-> n, v |-> v]
Emit(c, e, n, v) == [c EXCEPT !.log = Append(@, Ev(e, n, v))]

NoName == <<>>
NoField == <<"(none)">>

\* The State type's empty object
EmptyMem == [values |-> Undefined, errors |-> Undefined, submitted |-> Undefined]

\* A variant of clearMem that keeps the cached values.
clearMemButValues(c) ==
  [c EXCEPT !.mem = [EmptyMem EXCEPT !.values = c.mem.values],
            !.pending = [clean |-> 0, dirty |-> @.clean + @.dirty]]

\* `this._mem = {}`; every suspended submit call has now seen a change.
clearMem(c) ==
  [c EXCEPT !.mem = EmptyMem,
            !.pending = [clean |-> 0, dirty |-> @.clean + @.dirty]]

\* An arbitrary but fixed enumeration of a set (the key order of an object).
RECURSIVE SetToSeq(_)
SetToSeq(S) ==
  IF S = {} THEN <<>>
  ELSE LET x == CHOOSE y \in S : TRUE IN <<x>> \o SetToSeq(S \ {x})

-----------------------------------------------------------------------------
(* Schema *)

ValidSchemaFieldKeys == {"error", "parse", "value", "validate"}

\* A variant of isSchemaFieldObject that wants a key.
isSchemaFieldObjectWithKey(input) ==
  /\ isObject(input)
  /\ DOMAIN input.m # {}
  /\ \A k \in DOMAIN input.m : k \in {"error", "parse", "value", "validate"}

isSchemaFieldObject(input) ==
  isObject(input) /\ \A k \in DOMAIN input.m : k \in ValidSchemaFieldKeys

\* The names _initializeFields(name) registers, in the order it registers them.
RECURSIVE initializeFieldsNames(_, _)
RECURSIVE initializeFieldsKeys(_, _, _)
initializeFieldsKeys(sch, name, keys) ==
  IF keys = <<>> THEN <<>>
  ELSE initializeFieldsNames(sch, Append(name, Head(keys)))
         \o initializeFieldsKeys(sch, name, Tail(keys))
initializeFieldsNames(sch, name) ==
  LET fieldSchema == retrieve(sch, name) IN
  IF fieldSchema = Undefined THEN <<>>
  ELSE IF ~isSchemaFieldObject(fieldSchema)
       THEN IF isObject(fieldSchema)
            THEN initializeFieldsKeys(sch, name, SetToSeq(DOMAIN fieldSchema.m))
            ELSE <<>>
       ELSE <<name>>

\* Object.values(this._fields): the fields in the order their names were
\* first inserted, which is the order of registration at construction.
FieldOrder(c) ==
  SelectSeq(initializeFieldsNames(c.schema, <<>>), LAMBDA n : n \in DOMAIN c.fields)
fieldsIn(c, order) == [i \in 1..Len(order) |-> c.fields[order[i]]]
FieldValues(c) == fieldsIn(c, FieldOrder(c))

-----------------------------------------------------------------------------
(* Caller-supplied functions of the schema and the options, by identifier *)

\* schema validate(value, values)
CallValidator(id, value, values) ==
  CASE id = "required" -> IF Truthy(value) THEN Undefined ELSE Str("required")
    [] id = "error" -> Str("error")
    [] OTHER -> Undefined

\* schema parse(input, currentValue, name)
CallParser(id, input, current, name) ==
  CASE id = "lower" -> IF input = Str("A") THEN Str("a") ELSE input
    [] OTHER -> input

\* options.validate(values, errors); the default is noop.
CallModelValidate(id, values, errors) ==
  CASE id = "fooNotB" ->
         IF retrieve(values, <<"foo">>) = Str("b")
         THEN Obj([n \in {<<"foo">>} |-> Str("taken")])
         ELSE EmptyObj
    [] OTHER -> Undefined

-----------------------------------------------------------------------------
(* Model: subscribers, values, fields *)

\* The model after the function _subscribe(sub) returned was called.
unsubscribed(c, sub) ==
  [c EXCEPT !.subs = SelectSeq(c.subs, LAMBDA s : s # sub)]

\* What the subscribers do with the model they are called with: "setter"
\* sets a field, "submitter" submits the model, once, when it sees
\* isSubmitting, the others read the model only.
RECURSIVE setFieldValue(_, _, _, _)
RECURSIVE submit(_, _, _)
CallSubscriber(sub, c) ==
  CASE sub = "setter" -> setFieldValue(c, <<"foo">>, Str("A"), TRUE)
    [] sub = "submitter" ->
         IF c.submitting
         THEN submit(unsubscribed(c, sub), "value", Str("r1"))
         ELSE c
    [] OTHER -> c

\* this._subs.forEach((s) => s(this)): the subscribers still to visit, those
\* deleted meanwhile being passed over.
RECURSIVE notifyLoop(_, _)
notifyLoop(c, rest) ==
  IF rest = <<>> THEN c
  ELSE IF \A i \in DOMAIN c.subs : c.subs[i] # Head(rest)
  THEN notifyLoop(c, Tail(rest))
  ELSE notifyLoop(CallSubscriber(Head(rest),
                                 Emit(c, "called", <<Head(rest)>>,
                                      Bool(c.submitting))),
                  Tail(rest))

\* A variant of notify that calls the subscribers last to first.
notifyLastFirst(c) ==
  notifyLoop(Emit(c, "notify", NoName, Bool(c.submitting)),
             [i \in 1..Len(c.subs) |-> c.subs[Len(c.subs) + 1 - i]])

\* _notify(): every subscriber is called with the model.
notify(c) == notifyLoop(Emit(c, "notify", NoName, Bool(c.submitting)), c.subs)

\* The loop of the `values` getter over the Field objects fs, last to first.
RECURSIVE valuesLoop(_, _, _)
valuesLoop(fs, i, values) ==
  IF i < 1 THEN values
  ELSE valuesLoop(fs, i - 1,
                  IF fs[i].value # Undefined
                  THEN insert(values, fs[i].name, fs[i].value)
                  ELSE values)
valuesFrom(fs) == valuesLoop(fs, Len(fs), EmptyObj)

\* What `this.values` returns.
valuesOf(c) ==
  IF Truthy(c.mem.values) THEN c.mem.values ELSE valuesFrom(FieldValues(c))

\* The model after `this.values` was read: the tree is cached.
readValues(c) == [c EXCEPT !.mem.values = valuesOf(c)]

\* get isDirty
isDirty(c) == \E n \in DOMAIN c.fields : c.fields[n].dirty

\* get isTouched
isTouched(c) == \E n \in DOMAIN c.fields : c.fields[n].touched

\* this._fields[name] = field
fieldsWith(c, name, field) ==
  [n \in DOMAIN c.fields \cup {name} |-> IF n = name THEN field ELSE c.fields[n]]

\* A variant of storeField that changes the Field object in place: the
\* object the observer holds stays the current one.
storeFieldInPlace(c, name, field) ==
  [c EXCEPT !.fields = fieldsWith(c, name, field)]

\* this._fields[name] = field: a new Field object takes the place of the one
\* an observer may hold ("replaced": the observer's object is no longer the
\* one getField returns).
storeField(c, name, field) ==
  IF c.held = name
  THEN [Emit(c, "replaced", name, Undefined)
          EXCEPT !.fields = fieldsWith(c, name, field), !.held = NoField]
  ELSE [c EXCEPT !.fields = fieldsWith(c, name, field)]

\* A variant of updatedField that marks the field as touched only when its
\* value is among the changes.
updatedFieldTouchedByValue(field, changes) ==
  LET merged == [k \in DOMAIN field |->
                   IF k \in DOMAIN changes THEN changes[k] ELSE field[k]]
      changesValue == IF "value" \in DOMAIN changes THEN changes["value"]
                      ELSE Undefined
  IN  [merged EXCEPT !.touched = ("value" \in DOMAIN changes),
                     !.dirty = (merged.initialValue # changesValue)]

\* The Field _updateField(field, changes) creates; changes is a function on
\* a subset of the Field's keys.
updatedField(field, changes) ==
  LET merged == [k \in DOMAIN field |->
                   IF k \in DOMAIN changes THEN changes[k] ELSE field[k]]
      changesValue == IF "value" \in DOMAIN changes THEN changes["value"]
                      ELSE Undefined
  IN  [merged EXCEPT !.touched = TRUE,
                     !.dirty = (merged.initialValue # changesValue)]

\* _updateField(field, changes)
updateField(c, field, changes) ==
  storeField(c, field.name, updatedField(field, changes))

\* _performFieldValidation(field): the error the validator returns.
validationError(c, field) ==
  IF Get(c.utils[field.name], "validate") = Undefined THEN Undefined
  ELSE CallValidator(Get(c.utils[field.name], "validate").v, field.value,
                     valuesOf(c))

\* _performFieldValidation(field): the model after the validator was called.
validationCalled(c, field) ==
  IF Get(c.utils[field.name], "validate") = Undefined THEN c
  ELSE Emit(readValues(c), "validator", field.name, field.value)

\* A variant of validationStored that keeps the cached error set.
validationStoredCached(c, field, error) ==
  [c |-> IF field.error # error
         THEN updateField(c, field, [error |-> error])
         ELSE c,
   error |-> error]

\* _performFieldValidation(field): the update of the field's error.
validationStored(c, field, error) ==
  [c |-> IF field.error # error
         THEN [updateField(c, field, [error |-> error])
                 EXCEPT !.mem.errors = Undefined]
         ELSE c,
   error |-> error]

\* _performFieldValidation(field): the model after it, and the error returned.
performFieldValidation(c, field) ==
  validationStored(validationCalled(c, field), field, validationError(c, field))

\* The forEach of getErrors over the Field objects fs.
RECURSIVE getErrorsLoop(_, _, _)
RECURSIVE getErrorsNext(_, _, _)
getErrorsNext(r, fs, errors) ==
  getErrorsLoop(r.c, Tail(fs),
                IF Truthy(r.error) THEN Put(errors, Head(fs).name, r.error)
                ELSE errors)
getErrorsLoop(c, fs, errors) ==
  IF fs = <<>> THEN [c |-> c, errors |-> errors]
  ELSE getErrorsNext(performFieldValidation(c, Head(fs)), fs, errors)

\* {...errors, ...validateOptionErrors}
mergeErrors(errors, validateOptionErrors) ==
  IF validateOptionErrors = Undefined THEN errors
  ELSE Spread(errors, validateOptionErrors)

\* getErrors(): this._mem.errors = ...; return this._mem.errors
\* ("errors object": a new object becomes the cached error set).
errorsStored(c, errors) ==
  [c |-> [Emit(c, "errors object", NoName, Undefined) EXCEPT !.mem.errors = errors],
   errors |-> errors]

\* getErrors(): after the forEach, whose result is r.
errorsMerged(r) ==
  errorsStored(readValues(r.c),
               mergeErrors(r.errors,
                           CallModelValidate(r.c.options.validate,
                                             valuesOf(r.c), r.errors)))

\* getErrors(): the model after it, and the errors returned.
getErrors(c) ==
  IF ~Truthy(c.mem.errors)
  THEN errorsMerged(getErrorsLoop(c, FieldValues(c), EmptyObj))
  ELSE [c |-> c, errors |-> c.mem.errors]

\* A variant of validateNotify that notifies whatever the cache held.
validateNotifyAlways(r, shouldNotify) == [c |-> notify(r.c), errors |-> r.errors]

\* validate(): the notification after getErrors returned r.
validateNotify(r, shouldNotify) ==
  [c |-> IF shouldNotify THEN notify(r.c) ELSE r.c, errors |-> r.errors]

\* validate(): the model after it, and the errors returned.
validate(c) == validateNotify(getErrors(c), ~Truthy(c.mem.errors))

\* Object.keys(errors).length > 0, for the result r of getErrors
hasKeys(r) == [c |-> r.c, result |-> DOMAIN r.errors.m # {}]

\* A variant of hasError that never finds an error.
hasErrorNever(c) == [c |-> getErrors(c).c, result |-> FALSE]

\* hasError(): the model after it, and the boolean returned.
hasError(c) == hasKeys(getErrors(c))

-----------------------------------------------------------------------------
(* Model: registration, storage import, reset *)

\* What the storage driver holds after save(this._fields): per field, in
\* order, the name and the stored Field, of which load reads back `value`.
savedIn(c, order) ==
  [i \in 1..Len(order) |->
     [n |-> order[i], f |-> Obj([k \in {"value"} |-> c.fields[order[i]].value])]]
savedFields(c) == savedIn(c, FieldOrder(c))

storageSave(c) ==
  [Emit(c, "storage.save", NoName, Undefined) EXCEPT !.store = savedFields(c)]

\* A variant of storageClear that leaves the stored data.
storageClearNothing(c) == Emit(c, "storage.clear", NoName, Undefined)

storageClear(c) ==
  [Emit(c, "storage.clear", NoName, Undefined) EXCEPT !.store = <<>>]

\* The Field _registerField(name, schema) creates.
registeredField(name, fieldSchema) ==
  [error |-> Get(fieldSchema, "error"), name |-> name,
   value |-> Get(fieldSchema, "value"), dirty |-> FALSE,
   initialValue |-> Get(fieldSchema, "value"), touched |-> FALSE]

\* _registerField: this._utils[name] = utils
registeredUtils(c, name, fieldSchema) ==
  [c EXCEPT !.utils =
     [n \in DOMAIN c.utils \cup {name} |->
        IF n = name
        THEN Obj([k \in DOMAIN fieldSchema.m \ {"value", "error"} |->
                    fieldSchema.m[k]])
        ELSE c.utils[n]]]

\* _registerField: the initial error goes to this._mem.errors.
registeredError(c, name, error) ==
  IF Truthy(error)
  THEN [c EXCEPT !.mem.errors =
          Put(IF ~Truthy(c.mem.errors) THEN EmptyObj ELSE c.mem.errors,
              name, error)]
  ELSE c

\* _registerField(name, schema)
registerField(c, name, fieldSchema) ==
  registeredError(
    storeField(registeredUtils(c, name, fieldSchema), name,
               registeredField(name, fieldSchema)),
    name, Get(fieldSchema, "error"))

\* _initializeFields(): registers the names in order.
RECURSIVE registerAll(_, _)
registerAll(c, names) ==
  IF names = <<>> THEN c
  ELSE registerAll(registerField(c, Head(names), retrieve(c.schema, Head(names))),
                   Tail(names))
initializeFields(c) ==
  Emit(registerAll(c, initializeFieldsNames(c.schema, <<>>)),
       "_initializeFields", NoName, Undefined)

\* _loadStorageValues(): the import of one entry's value into its field.
loadStorageValue(c, field, value) ==
  IF TypeOf(value) = TypeOf(field.value) /\ value # field.value
  THEN updateField(c, field, [value |-> value])
  ELSE c

\* _loadStorageValues(): the loop over the entries the driver loaded.  An
\* entry that is not an object ends the loop (`return`); an entry whose name
\* is no registered field makes `field.value` throw.
RECURSIVE loadStorageLoop(_, _)
loadStorageLoop(c, entries) ==
  IF entries = <<>> THEN c
  ELSE IF ~isObject(Head(entries).f) THEN c
  ELSE IF Head(entries).n \notin DOMAIN c.fields
  THEN Emit(c, "throw", Head(entries).n, Undefined)
  ELSE loadStorageLoop(
         loadStorageValue(c, c.fields[Head(entries).n],
                          Get(Head(entries).f, "value")),
         Tail(entries))
loadStorageValues(c) ==
  loadStorageLoop(Emit(c, "storage.load", NoName, Undefined), c.store)

\* _clearState()
clearState(c) ==
  Emit([clearMem(c) EXCEPT !.utils = <<>>, !.state = c.options.initialState],
       "_clearState", NoName, Undefined)

\* _setupInitialState()
setupInitialState(c) == loadStorageValues(initializeFields(clearState(c)))

\* A variant of startsWithDot that matches every name.
startsWithAnything(name, search) == TRUE

\* name.indexOf(search + ".") === 0
startsWithDot(name, search) ==
  Len(name) > Len(search) /\ SubSeq(name, 1, Len(search)) = search

\* The Field objects _for(search, cb) calls cb with.
forFields(c, search) ==
  IF search \in DOMAIN c.fields
  THEN <<c.fields[search]>>
  ELSE SelectSeq(FieldValues(c), LAMBDA f : startsWithDot(f.name, search))

\* The callback reset(name) gives to _for, applied to a Field's name.
resetField(c, name, fieldSchema) ==
  IF ~Truthy(fieldSchema) THEN c ELSE registerField(c, name, fieldSchema)

RECURSIVE resetFields(_, _)
resetFields(c, fs) ==
  IF fs = <<>> THEN c
  ELSE resetFields(resetField(c, Head(fs).name, retrieve(c.schema, Head(fs).name)),
                   Tail(fs))

\* A variant of resetNotify that drops the caches also when nothing matched.
resetNotifyCleared(c, shouldNotify) ==
  IF shouldNotify THEN notify(clearMem(c)) ELSE clearMem(c)

\* reset: `if (shouldNotify) { this._mem = {}; this._notify() }`
resetNotify(c, shouldNotify) ==
  IF shouldNotify THEN notify(clearMem(c)) ELSE c

\* A variant of resetAll that calls onReset before the fields are registered
\* anew.
resetAllCallbackFirst(c) ==
  setupInitialState(Emit(storageClear(c), "onReset", NoName, Undefined))

\* reset(), up to the onReset callback
resetAll(c) ==
  Emit(setupInitialState(storageClear(c)), "onReset", NoName, Undefined)

\* reset(name)
reset(c, name) ==
  IF Len(name) > 0
  THEN resetNotify(storageSave(resetFields(c, forFields(c, name))),
                   forFields(c, name) # <<>>)
  ELSE resetNotify(resetAll(c), TRUE)

-----------------------------------------------------------------------------
(* Model: public methods *)

\* A variant of getField that does not throw.
getFieldAnyway(c, name) == [c EXCEPT !.held = name]

\* getField(name): throws for a name that is no key of this._fields.
getField(c, name) ==
  IF name \notin DOMAIN c.fields
  THEN Emit(c, "throw", name, Str("Missing model field"))
  ELSE [c EXCEPT !.held = name]

\* setFieldValue: the value after the parse step.
parsedValue(c, name, input) ==
  IF Truthy(Get(c.utils[name], "parse"))
  THEN CallParser(Get(c.utils[name], "parse").v, input, c.fields[name].value, name)
  ELSE input

\* setFieldValue: the model after the parse step.
parsed(c, name, value) ==
  Emit(IF Truthy(Get(c.utils[name], "parse"))
       THEN Emit(c, "parse", name, Undefined) ELSE c,
       "candidate", name, value)

\* A variant of sameValue that never finds the values identical.
sameValueNever(fieldValue, value) == FALSE

\* The test `field.value === value` of setFieldValue.
sameValue(fieldValue, value) == fieldValue = value

\* A variant of validatedIf that validates every field of the model.
validatedIfAll(c, name, shouldValidate) ==
  IF shouldValidate THEN getErrors(c).c ELSE c

\* setFieldValue: `if (shouldValidate) this._performFieldValidation(field)`
validatedIf(c, name, shouldValidate) ==
  IF shouldValidate THEN performFieldValidation(c, c.fields[name]).c ELSE c

\* A variant of changeValue that calls onChange before it saves the fields.
changeValueCallbackFirst(c, field, value, shouldValidate) ==
  IF sameValue(field.value, value) THEN c
  ELSE notify(storageSave(Emit(
                validatedIf(updateField(clearMem(c), field, [value |-> value]),
                            field.name, shouldValidate),
                "onChange", NoName, Undefined)))

\* setFieldValue: from the comparison of the values on.
changeValue(c, field, value, shouldValidate) ==
  IF sameValue(field.value, value) THEN c
  ELSE notify(Emit(storageSave(
                     validatedIf(updateField(clearMem(c), field, [value |-> value]),
                                 field.name, shouldValidate)),
                   "onChange", NoName, Undefined))

\* setFieldValue(name, input, shouldValidate)
setFieldValue(c, name, input, shouldValidate) ==
  IF Len(name) = 0 THEN Emit(c, "console.warn", NoName, Undefined)
  ELSE IF name \notin DOMAIN c.fields
  THEN Emit(c, "throw", name, Str("Missing model field"))
  ELSE changeValue(parsed(c, name, parsedValue(c, name, input)), c.fields[name],
                   parsedValue(c, name, input), shouldValidate)

\* A variant of validateFieldNotify that notifies whatever the error is.
validateFieldNotifyAlways(field, r) ==
  Emit(notify(r.c), "return", field.name, r.error)

\* A variant of validateFieldNotify that never notifies.
validateFieldNotifyNever(field, r) == Emit(r.c, "return", field.name, r.error)

\* validateField: the notification and the return, r being the result of
\* _performFieldValidation(field).
validateFieldNotify(field, r) ==
  Emit(IF field.error # r.error THEN notify(r.c) ELSE r.c,
       "return", field.name, r.error)

\* validateField(name)
validateField(c, name) ==
  IF name \notin DOMAIN c.fields
  THEN Emit(c, "throw", name, Str("Missing model field"))
  ELSE validateFieldNotify(c.fields[name],
                           performFieldValidation(c, c.fields[name]))

\* _setSubmitting(value)
setSubmitting(c, value) == notify([c EXCEPT !.submitting = value])

\* A variant of isSubmitted without the lock.
isSubmittedNever(c) == FALSE

\* The lock test of submit: `if (this._mem.submitted)`.
isSubmitted(c) == Truthy(c.mem.submitted)

\* A variant of submitFinally without the finally block.
submitFinallyNothing(c, how, v) == Emit(c, how, NoName, v)

\* submit: the finally block, and the settlement of the promise submit
\* returned (how is "resolve" or "reject").
submitFinally(c, how, v) == Emit(setSubmitting(c, FALSE), how, NoName, v)

\* A variant of submitSuccess that calls onSubmit before storage.clear.
submitSuccessSwapped(c, result) ==
  submitFinally(storageClear(Emit(c, "onSubmit", NoName, Undefined)),
                "resolve", result)

\* submit: after the submission result is there: clear, onSubmit, return.
submitSuccess(c, result) ==
  submitFinally(Emit(storageClear(c), "onSubmit", NoName, Undefined),
                "resolve", result)

\* A variant of submitCatch that leaves the lock set.
submitCatchLocked(c, err) == submitFinally(c, "reject", err)

\* A variant of submitCatch that clears the storage as a success does.
submitCatchCleared(c, err) ==
  submitFinally(storageClear([c EXCEPT !.mem.submitted = Bool(FALSE)]),
                "reject", err)

\* submit: the catch block.
submitCatch(c, err) ==
  submitFinally([c EXCEPT !.mem.submitted = Bool(FALSE)], "reject", err)

\* submit: what the submit callback does with the values: kind is "value"
\* (it returns r), "throw" (it throws r) or "promise" (it returns a pending
\* promise, and the call is suspended at `await result`).
submitCalled(c, kind, r) ==
  CASE kind = "throw" -> submitCatch(Emit(c, "throws", NoName, r), r)
    [] kind = "value" -> submitSuccess(Emit(c, "returns", NoName, r), r)
    [] OTHER -> [Emit(c, "returns a promise", NoName, Undefined)
                   EXCEPT !.pending.clean = @ + 1]

\* submit: `if (this.hasError()) ... else ...`, h being the result of
\* hasError() and errors the result of validate().
submitChecked(h, errors, kind, r) ==
  IF h.result
  THEN submitFinally(Emit(h.c, "handleError", NoName, errors),
                     "resolve", Undefined)
  ELSE submitCalled(Emit(readValues(h.c), "submitFn", NoName, valuesOf(h.c)),
                    kind, r)

\* submit: after `const errors = this.validate()`, whose result is v.
submitValidated(v, kind, r) == submitChecked(hasError(v.c), v.errors, kind, r)

\* submit: `this._setSubmitting(true); this._mem.submitted = true`
submitLocked(c) ==
  [setSubmitting(c, TRUE) EXCEPT !.mem.submitted = Bool(TRUE)]

\* submit(submit, handleError) up to its return or its suspension at `await`.
submit(c, kind, r) ==
  IF isSubmitted(c) THEN Emit(c, "resolve", NoName, Undefined)
  ELSE submitValidated(validate(submitLocked(c)), kind, r)

\* The suspended submit call (a clean or a dirty one) that resumes.
resumed(c, clean) ==
  IF clean THEN [c EXCEPT !.pending.clean = @ - 1]
  ELSE [c EXCEPT !.pending.dirty = @ - 1]

\* The rest of a suspended submit call, once its promise has settled:
\* fulfilled with r, or rejected with r.
settle(c, clean, fulfilled, r) ==
  IF fulfilled
  THEN submitSuccess(Emit(resumed(c, clean), "fulfilled", NoName, r), r)
  ELSE submitCatch(Emit(resumed(c, clean), "rejected", NoName, r), r)

\* The updater functions given to setState, applied to the state.
CallUpdater(id, prev) ==
  CASE id = "another" -> Obj([another |-> Get(prev, "val")])
    [] OTHER -> EmptyObj

\* setState(state): the update to merge, the result of an updater function
\* or the object given.
stateUpdate(c, update) ==
  IF TypeOf(update) = "function" THEN CallUpdater(update.v, c.state)
  ELSE update

\* A variant of stateMerged that takes the update for the new state.
stateReplaced(c, update) == [c EXCEPT !.state = update]

\* this._state = {...this._state, ...update}
stateMerged(c, update) == [c EXCEPT !.state = Spread(c.state, update)]

\* setState(state), for an object or an updater function
setState(c, update) == notify(stateMerged(c, stateUpdate(c, update)))

-----------------------------------------------------------------------------
(* The models checked *)

MaxPending == 2

SchemaA ==
  Obj([foo |-> Obj([value |-> Str("a"), validate |-> Fn("required")]),
       nested |-> Obj([bar |-> Obj([value |-> Undefined, error |-> Str("e0"),
                                    parse |-> Fn("lower")])])])

\* A leaf whose value is an object with a key of its own.
SchemaB == Obj([list |-> Obj([value |-> Obj([value |-> Str("a")])])])

\* The empty schema.
SchemaEmpty == EmptyObj

Schemas == {SchemaA}

\* The schemas of the models whose registry is examined.
SchemasRegistry == {SchemaA, SchemaB, SchemaEmpty}

OptionSets ==
  {[validate |-> "noop", initialState |-> EmptyObj],
   [validate |-> "fooNotB", initialState |-> EmptyObj]}

StoredValue(v) == Obj([k \in {"value"} |-> v])

InitStores ==
  { <<>>,
    <<[n |-> <<"foo">>, f |-> StoredValue(Str("b"))]>>,
    <<[n |-> <<"foo">>, f |-> StoredValue(Str("a"))],
      [n |-> <<"nested", "bar">>, f |-> StoredValue(Str("b"))]>> }

Inputs == {Undefined, Str("a"), Str("A")}
CallNames == {<<>>, <<"foo">>, <<"nested", "bar">>, <<"nested">>}
SubmitResults == {Str("r1"), Str("r2")}
StateUpdates == {Obj([val |-> Str("test")]), Fn("another")}

\* new Model(schema, options), the storage driver holding st
construct(sch, opt, st) ==
  setupInitialState(
    [schema |-> sch, options |-> opt, fields |-> <<>>, utils |-> <<>>,
     mem |-> EmptyMem, state |-> EmptyObj, submitting |-> FALSE, store |-> st,
     pending |-> [clean |-> 0, dirty |-> 0], held |-> NoField, subs |-> <<>>,
     log |-> <<Ev("new", NoName, Undefined)>>])

Constructed(c) ==
  /\ schema = c.schema
  /\ options = c.options
  /\ fields = c.fields
  /\ utils = c.utils
  /\ mem = c.mem
  /\ state = c.state
  /\ submitting = c.submitting
  /\ store = c.store
  /\ pending = c.pending
  /\ held = c.held
  /\ subs = c.subs
  /\ log = c.log

Commit(c) ==
  /\ schema' = c.schema
  /\ options' = c.options
  /\ fields' = c.fields
  /\ utils' = c.utils
  /\ mem' = c.mem
  /\ state' = c.state
  /\ submitting' = c.submitting
  /\ store' = c.store
  /\ pending' = c.pending
  /\ held' = c.held
  /\ subs' = c.subs
  /\ log' = c.log
  /\ util' = util

\* The constructor returned: the storage import did not throw.
constructed(c) == ~\E i \in DOMAIN c.log : c.log[i].e = "throw"

\* No call of retrieve or insert.
NoUtil == [fn |-> "none"]

Init ==
  \E sch \in Schemas, opt \in OptionSets, st \in InitStores :
    /\ Constructed(construct(sch, opt, st))
    /\ util = NoUtil

\* The models of SchemasRegistry whose constructor returned.
InitRegistry ==
  \E sch \in SchemasRegistry, opt \in OptionSets, st \in InitStores :
    /\ constructed(construct(sch, opt, st))
    /\ Constructed(construct(sch, opt, st))
    /\ util = NoUtil

\* The context of a call op (on the field name n, if any).
Call(op, n) == Emit(Ctx, op, n, Undefined)

\* The context of a call op on the field name n with the argument v on which
\* its effects depend beyond the name.
CallWith(op, n, v) == Emit(Ctx, op, n, v)

GetField == \E name \in CallNames : Commit(getField(Call("getField", name), name))

ReadValues == Commit(readValues(Call("values", NoName)))

SetFieldValue ==
  \E name \in CallNames, input \in Inputs, shouldValidate \in BOOLEAN :
    Commit(setFieldValue(Call("setFieldValue", name), name, input, shouldValidate))

Validate == Commit(validate(Call("validate", NoName)).c)

GetErrors == Commit(getErrors(Call("getErrors", NoName)).c)

HasError == Commit(hasError(Call("hasError", NoName)).c)

ValidateField ==
  \E name \in CallNames : Commit(validateField(Call("validateField", name), name))

Submit ==
  \E kind \in {"value", "throw", "promise"}, r \in SubmitResults :
    /\ kind = "promise" => pending.clean + pending.dirty < MaxPending
    /\ Commit(submit(Call("submit", NoName), kind, r))

Settle ==
  \E clean \in BOOLEAN, fulfilled \in BOOLEAN, r \in SubmitResults :
    /\ IF clean THEN pending.clean > 0 ELSE pending.dirty > 0
    /\ Commit(settle(Call("settle", IF clean THEN <<"clean">> ELSE <<"dirty">>),
                     clean, fulfilled, r))

Reset == \E name \in CallNames : Commit(reset(Call("reset", name), name))

SetState ==
  \E update \in StateUpdates : Commit(setState(Call("setState", NoName), update))

Next ==
  \/ SetFieldValue
  \/ Validate
  \/ GetErrors
  \/ HasError
  \/ ValidateField
  \/ Submit
  \/ Settle
  \/ Reset

Spec == Init /\ [][Next]_vars

\* A pending promise eventually settles, and the suspended call resumes.
SpecLive == Spec /\ WF_vars(Settle)

\* submit with a submit callback that returns or throws at once.
SubmitSync ==
  \E kind \in {"value", "throw"}, r \in SubmitResults :
    Commit(submit(Call("submit", NoName), kind, r))

\* The model with an observer that gets fields and reads the values, the
\* submit callbacks being synchronous.
NextObserved ==
  \/ GetField
  \/ ReadValues
  \/ SetFieldValue
  \/ Validate
  \/ GetErrors
  \/ HasError
  \/ ValidateField
  \/ SubmitSync
  \/ Reset

SpecObserved == Init /\ [][NextObserved]_vars

\* Names that are no field of SchemaA: a field of SchemaB.
OtherNames == {<<"list">>}

GetFieldOther ==
  \E name \in OtherNames : Commit(getField(Call("getField", name), name))

SetFieldValueOther ==
  \E name \in OtherNames, input \in Inputs, shouldValidate \in BOOLEAN :
    Commit(setFieldValue(Call("setFieldValue", name), name, input, shouldValidate))

ValidateFieldOther ==
  \E name \in OtherNames :
    Commit(validateField(Call("validateField", name), name))

ResetOther ==
  \E name \in OtherNames : Commit(reset(Call("reset", name), name))

\* The observed model, for every schema and name.
NextRegistry ==
  \/ NextObserved
  \/ GetFieldOther
  \/ SetFieldValueOther
  \/ ValidateFieldOther
  \/ ResetOther

SpecRegistry == InitRegistry /\ [][NextRegistry]_vars

\* The model with its custom state set, the submit callbacks being synchronous.
NextState ==
  \/ SetFieldValue
  \/ Validate
  \/ GetErrors
  \/ HasError
  \/ ValidateField
  \/ SubmitSync
  \/ Reset
  \/ ResetOther
  \/ SetState

SpecState == Init /\ [][NextState]_vars

\* setFieldValue, the call's shouldValidate argument being logged with it.
SetFieldValueWith ==
  \E name \in CallNames, input \in Inputs, shouldValidate \in BOOLEAN :
    Commit(setFieldValue(CallWith("setFieldValue", name, Bool(shouldValidate)),
                         name, input, shouldValidate))

\* The model with its fields set, validated and reset, an observer getting
\* fields in between.
NextChange ==
  \/ GetField
  \/ SetFieldValueWith
  \/ ValidateField
  \/ GetErrors
  \/ Reset

SpecChange == Init /\ [][NextChange]_vars

\* The subscribers there are, and how many subscribe at a time.
Subscribers == {"watcher", "renderer", "setter", "submitter"}
MaxSubs == 2

\* _subscribe(sub): this._subs.add(sub), which adds nothing when the
\* subscriber is in the set
subscribe(c, sub) ==
  IF \E i \in DOMAIN c.subs : c.subs[i] = sub THEN c
  ELSE [c EXCEPT !.subs = Append(@, sub)]

Subscribe ==
  \E sub \in Subscribers :
    /\ Len(subs) < MaxSubs
    /\ Commit(subscribe(Call("_subscribe", <<sub>>), sub))

\* The function _subscribe(sub) returned is called.
Unsubscribe ==
  \E sub \in Subscribers :
    Commit(unsubscribed(Call("unsubscribe", <<sub>>), sub))

\* The model with subscribers, some of which call the model from their
\* callback; the submit callbacks are synchronous.
NextSubs ==
  \/ Subscribe
  \/ Unsubscribe
  \/ SetFieldValue
  \/ SubmitSync

SpecSubs == Init /\ [][NextSubs]_vars

\* Two leaves of the same type, both importable from the storage.
SchemaC ==
  Obj([foo |-> Obj([value |-> Str("a"), validate |-> Fn("required")]),
       list |-> Obj([value |-> Str("a")])])

\* What storage.load() may return for a model of SchemaC: entries in the
\* object's key order, among them entries that are no object, entries whose
\* value has another type, and an entry under a name the schema does not have.
StoresLoaded ==
  { <<>>,
    <<[n |-> <<"foo">>, f |-> StoredValue(Str("b"))],
      [n |-> <<"list">>, f |-> StoredValue(Str("b"))]>>,
    <<[n |-> <<"foo">>, f |-> StoredValue(Str("a"))],
      [n |-> <<"list">>, f |-> StoredValue(Bool(TRUE))]>>,
    <<[n |-> <<"foo">>, f |-> StoredValue(Str("b"))],
      [n |-> <<"list">>, f |-> Str("b")]>>,
    <<[n |-> <<"foo">>, f |-> Null],
      [n |-> <<"list">>, f |-> StoredValue(Str("b"))]>>,
    <<[n |-> <<"gone">>, f |-> StoredValue(Str("b"))],
      [n |-> <<"foo">>, f |-> StoredValue(Str("b"))]>> }

\* new Model(SchemaC, options) over every loaded storage, the constructions
\* that throw included.
InitStorage ==
  \E opt \in OptionSets, st \in StoresLoaded :
    /\ Constructed(construct(SchemaC, opt, st))
    /\ util = NoUtil

\* The constructor threw: there is no model to call.
ConstructorThrew ==
  log[1].e = "new" /\ \E i \in DOMAIN log : log[i].e = "throw"

NextStorage == ~ConstructorThrew /\ NextRegistry

SpecStorage == InitStorage /\ [][NextStorage]_vars

\* Form: handleSubmit after `await model.submit(submit, handleError)`, c being
\* the model once the promise submit returned has settled.  A rejection ends
\* the handler; otherwise `if (resetOnSubmit) { model.reset() }`.
handleSubmitResumed(c, resetOnSubmit) ==
  IF c.log[Len(c.log)].e # "resolve" THEN c
  ELSE IF resetOnSubmit
       THEN reset(Emit(c, "resetOnSubmit", NoName, Undefined), NoName)
       ELSE c

\* Form: handleSubmit(event), the submit callback returning or throwing at
\* once; the rest of the handler runs as a microtask, before any other event.
handleSubmit(c, resetOnSubmit, kind, r) ==
  handleSubmitResumed(submit(Emit(c, "props.onSubmit", NoName, Undefined),
                             kind, r),
                      resetOnSubmit)

\* Form: handleReset(event)
handleReset(c) == reset(Emit(c, "props.onReset", NoName, Undefined), NoName)

FormSubmit ==
  \E resetOnSubmit \in BOOLEAN, kind \in {"value", "throw"},
     r \in SubmitResults :
    Commit(handleSubmit(Call("handleSubmit", NoName), resetOnSubmit, kind, r))

FormReset == Commit(handleReset(Call("handleReset", NoName)))

\* The model of a Form: its fields are set and validated, the form is
\* submitted and reset.
NextForm ==
  \/ SetFieldValue
  \/ ValidateField
  \/ FormSubmit
  \/ FormReset

SpecForm == Init /\ [][NextForm]_vars

\* The trees, keys and values retrieve and insert are called with.
UtilTrees ==
  { EmptyObj,
    Obj([a |-> Str("s")]),
    Obj([a |-> Null]),
    Obj([a |-> Obj([b |-> Str("s")])]),
    Obj([a |-> Obj([b |-> Obj([c |-> Str("s")])]), x |-> Str("s")]) }

UtilKeys == {<<>>, <<"a">>, <<"a", "b">>, <<"a", "b", "c">>, <<"x", "y">>}

UtilValues == {Str("v"), Undefined, Obj([b |-> Str("v")])}

\* A call of fn that has not run yet.
UtilCall(fn, obj, key, value) ==
  [fn |-> fn, obj |-> obj, key |-> key, value |-> value, done |-> FALSE,
   result |-> Undefined, input |-> obj]

\* A call of retrieve or insert to make, next to a model that is left alone.
InitUtils ==
  /\ Constructed(construct(SchemaEmpty, [validate |-> "noop",
                                          initialState |-> EmptyObj], <<>>))
  /\ \E obj \in UtilTrees, key \in UtilKeys :
       \/ util = UtilCall("retrieve", obj, key, Undefined)
       \/ \E value \in UtilValues : util = UtilCall("insert", obj, key, value)

Retrieve ==
  /\ util.fn = "retrieve"
  /\ ~util.done
  /\ util' = [util EXCEPT !.done = TRUE,
                          !.result = retrieve(util.obj, util.key)]
  /\ UNCHANGED <<schema, options, fields, utils, mem, state, submitting,
                 store, pending, held, log, subs>>

Insert ==
  /\ util.fn = "insert"
  /\ ~util.done
  /\ util' = [util EXCEPT
                !.done = TRUE,
                !.result = insert(util.obj, util.key, util.value),
                !.input = insertInput(util.obj, util.key, util.value)]
  /\ UNCHANGED <<schema, options, fields, utils, mem, state, submitting,
                 store, pending, held, log, subs>>

NextUtils == Retrieve \/ Insert

SpecUtils == InitUtils /\ [][NextUtils]_vars

-----------------------------------------------------------------------------
(* Properties *)

\* The method called in the last step ("settle": the rest of a suspended
\* submit call).
Op == log[1].e

HasEv(l, e) == \E i \in DOMAIN l : l[i].e = e
Count(l, e) == Cardinality({i \in DOMAIN l : l[i].e = e})
Last(l) == l[Len(l)]

\* The number of submit callbacks whose promise is pending.
Pending == pending.clean + pending.dirty

\* The last step was a submit call that called the submit callback once and
\* is suspended on its promise.
SubmitSuspended ==
  Op = "submit" /\ Count(log, "submitFn") = 1 /\ HasEv(log, "returns a promise")

\* The last step was a setFieldValue call that changed the field's value.
EffectiveMutation == Op = "setFieldValue" /\ HasEv(log, "onChange")

C1_Immediate ==
  (SubmitSuspended /\ log'[1].e = "submit") => ~HasEv(log', "submitFn")

C1_AfterMutation ==
  (/\ EffectiveMutation
   /\ Pending = 0
   /\ DOMAIN getErrors(Ctx).errors.m = {}
   /\ log'[1].e = "submit")
  => Count(log', "submitFn") = 1

\* C1: a submit call made right after a submit call that called the submit
\* callback and is still waiting for its result does not call the callback
\* (the two calls call it exactly once); with no call pending and no
\* validation errors, a submit call that follows an effective setFieldValue
\* calls the callback, once.
C1_SubmitOncePerChange == [][C1_Immediate /\ C1_AfterMutation]_vars

\* A second submit call returned at the lock while the first is pending.
C1_Witness ==
  /\ Op = "submit"
  /\ Len(log) = 2
  /\ Last(log).e = "resolve"
  /\ pending.clean > 0

\* C2: the submit callback is never called while the promise of an earlier
\* call of it is pending.
C2_NoSubmitWhilePending ==
  (Op = "submit" /\ HasEv(log, "submitFn"))
  => Pending = (IF HasEv(log, "returns a promise") THEN 1 ELSE 0)

\* C3: while the promise of a submit callback is pending, isSubmitting is
\* true.
C3_PendingImpliesSubmitting == Pending > 0 => submitting

\* The error the submit callback threw or its promise rejected with.
Failure(l) == l[CHOOSE i \in DOMAIN l : l[i].e \in {"throws", "rejected"}].v

C4_Rejects ==
  (HasEv(log, "throws") \/ HasEv(log, "rejected"))
  => /\ Last(log) = Ev("reject", NoName, Failure(log))
     /\ ~Truthy(mem.submitted)

C4_Retry ==
  (/\ HasEv(log, "throws") \/ (HasEv(log, "rejected") /\ log[1].n = <<"clean">>)
   /\ log'[1].e = "submit")
  => Count(log', "submitFn") = 1

\* C4: when the submit callback throws or its promise rejects, the promise
\* submit returned is rejected with the same error and the submitted flag
\* is cleared; a submit call right after it, no mutation or reset having
\* happened since the failed call began, calls the submit callback again.
C4_FailureUnlocks == []C4_Rejects /\ [][C4_Retry]_vars

\* The promise of a submit call rejected, nothing having changed since the
\* call began.
C4_Witness ==
  /\ Op = "settle"
  /\ log[1].n = <<"clean">>
  /\ HasEv(log, "rejected")
  /\ Last(log).e = "reject"

\* The last step was a submit call that passed the lock and ran to its end,
\* or the rest of a suspended one.
SubmitEnded ==
  \/ Op = "settle"
  \/ /\ Op = "submit"
     /\ HasEv(log, "notify")
     /\ ~HasEv(log, "returns a promise")

C5_Cleared ==
  SubmitEnded
  => /\ ~submitting
     /\ Len(log) > 2
     /\ log[Len(log) - 1] = Ev("notify", NoName, Bool(FALSE))
     /\ Last(log).e \in {"resolve", "reject"}

\* C5: a submit call that set isSubmitting and ended (validation failure,
\* callback returned or threw) has set it back to false and then notified
\* the subscribers; a submit call suspended on the callback's promise is
\* followed by the rest of a call, which sets isSubmitting to false and then
\* notifies.
C5_SubmittingCleared ==
  /\ []C5_Cleared
  /\ (Op = "submit" /\ HasEv(log, "returns a promise")) ~> (Op = "settle")

\* A suspended submit call resumed on the fulfilment of its promise.
C5_Witness ==
  /\ Op = "settle"
  /\ HasEv(log, "fulfilled")
  /\ ~submitting
  /\ log[Len(log) - 1] = Ev("notify", NoName, Bool(FALSE))

C6_Outcome(errors, values) ==
  IF DOMAIN errors.m # {}
  THEN /\ Count(log', "handleError") = 1
       /\ \E i \in DOMAIN log' : log'[i] = Ev("handleError", NoName, errors)
       /\ ~HasEv(log', "submitFn")
       /\ ~HasEv(log', "storage.clear")
       /\ ~HasEv(log', "onSubmit")
  ELSE /\ Count(log', "submitFn") = 1
       /\ \E i \in DOMAIN log' : log'[i] = Ev("submitFn", NoName, values)
       /\ ~HasEv(log', "handleError")

\* C6: a submit call that finds the submitted flag not set calls exactly one
\* of the callbacks: with getErrors() non-empty, handleError once with those
\* errors, and neither the submit callback nor storage.clear nor onSubmit;
\* with getErrors() empty, the submit callback once with the model's values,
\* and not handleError.
C6_OneCallback ==
  [][(log'[1].e = "submit" /\ ~Truthy(mem.submitted))
     => C6_Outcome(getErrors(Ctx).errors, valuesOf(Ctx))]_vars

\* A submit call ended in handleError.
C6_Witness ==
  /\ Op = "submit"
  /\ \E i \in DOMAIN log : log[i].e = "handleError" /\ DOMAIN log[i].v.m # {}

\* What follows the result r of the submit callback, at place i of the log.
C7_After(i) ==
  /\ SubSeq(log, i + 1, Len(log)) =
       << Ev("storage.clear", NoName, Undefined),
          Ev("onSubmit", NoName, Undefined),
          Ev("notify", NoName, Bool(FALSE)),
          Ev("resolve", NoName, log[i].v) >>
  /\ Count(log, "storage.clear") = 1
  /\ Count(log, "onSubmit") = 1

\* C7: once the submit callback has returned a value, or its promise is
\* fulfilled with one, storage.clear and then onSubmit are called, once
\* each, and submit resolves to that value; before the promise settles, and
\* when the callback throws or the promise rejects, neither is called.
C7_ClearThenOnSubmit ==
  /\ \A i \in DOMAIN log : log[i].e \in {"returns", "fulfilled"} => C7_After(i)
  /\ (\E i \in DOMAIN log : log[i].e \in {"throws", "rejected", "returns a promise"})
     => ~HasEv(log, "storage.clear") /\ ~HasEv(log, "onSubmit")

\* The promise of a submit callback was fulfilled, onSubmit was called.
C7_Witness ==
  /\ Op = "settle"
  /\ HasEv(log, "onSubmit")
  /\ Last(log).e = "resolve"
  /\ Last(log).v # Undefined

\* The step is a setFieldValue call whose candidate value is the field's
\* value.
C8_SameValue ==
  /\ log'[1].e = "setFieldValue"
  /\ \E i \in DOMAIN log' :
       /\ log'[i].e = "candidate"
       /\ log'[i].v = fields[log'[i].n].value

C8_NoEffect ==
  /\ UNCHANGED <<schema, options, fields, utils, mem, state, submitting,
                 store, pending, held>>
  /\ \A i \in DOMAIN log' : log'[i].e \in {"setFieldValue", "parse", "candidate"}

\* C8: a setFieldValue call whose candidate value (the result of the field's
\* parse, or the input) is the field's value changes nothing (fields, cached
\* values and errors, submitted flag, storage) and calls no validator, no
\* storage.save, no onChange and no subscriber.
C8_SameValueNoOp == [][C8_SameValue => C8_NoEffect]_vars

\* A setFieldValue call parsed its input to the field's value, and stopped.
C8_Witness ==
  /\ Op = "setFieldValue"
  /\ HasEv(log, "parse")
  /\ \E i \in DOMAIN log :
       /\ log[i].e = "candidate"
       /\ log[i].v = fields[log[i].n].value
  /\ ~HasEv(log, "onChange")

\* C9: for every field, dirty is true exactly when the field's value
\* differs from its initialValue.
C9_DirtyIffChanged ==
  \A n \in DOMAIN fields :
    fields[n].dirty <=> (fields[n].value # fields[n].initialValue)

\* The object the observer holds stays the one getField returns, unless
\* one of the methods ran.
C10_SameInstanceUnless(methods) ==
  (held # NoField /\ log'[1].e \notin methods)
  => /\ fields' = fields
     /\ held' = held \/ log'[1].e = "getField"

\* While the object the observer holds is the one getField returns, the
\* field's properties are those of the object.
C10_NeverMutated ==
  (held # NoField /\ held' = held) => fields'[held] = fields[held]

\* C10 as stated: the instance getField(name) returns stays the same unless
\* setFieldValue, validate, validateField, submit or reset ran; a mutation
\* of the field leaves the object obtained before as it was.
C10_AsStated ==
  [][/\ C10_SameInstanceUnless({"setFieldValue", "validate", "validateField",
                                "submit", "reset"})
     /\ C10_NeverMutated]_vars

\* C10: the instance getField(name) returns stays the same unless
\* setFieldValue, validate, validateField, submit, reset, getErrors or
\* hasError ran; a mutation of the field leaves the object obtained before
\* as it was, getField returning another one.
C10_FieldIdentity ==
  [][/\ C10_SameInstanceUnless({"setFieldValue", "validate", "validateField",
                                "submit", "reset", "getErrors", "hasError"})
     /\ C10_NeverMutated]_vars

\* getErrors or hasError replaced the object the observer held.
C10_Witness ==
  /\ Op \in {"getErrors", "hasError"}
  /\ HasEv(log, "replaced")
  /\ held = NoField

\* The value the schema declares for the field n.
SchemaValue(n) == Get(retrieve(schema, n), "value")

\* The error the schema declares for the field n.
SchemaError(n) == Get(retrieve(schema, n), "error")

\* C11: after reset() with no argument, whatever the state before it,
\* every field's value and initialValue are the value the schema declares,
\* dirty and touched are false for every field, and isDirty and isTouched
\* are false.
C11_ResetRestores ==
  (Op = "reset" /\ log[1].n = NoName)
  => /\ \A n \in DOMAIN fields :
          /\ fields[n].value = SchemaValue(n)
          /\ fields[n].initialValue = SchemaValue(n)
          /\ ~fields[n].dirty
          /\ ~fields[n].touched
     /\ ~isDirty(Ctx)
     /\ ~isTouched(Ctx)

\* reset() ran while a submission was in flight.
C11_Witness ==
  /\ Op = "reset"
  /\ log[1].n = NoName
  /\ Pending > 0
  /\ submitting

\* The fields reset(path) is to register again: the field named path, or
\* else the fields whose names continue path after a dot.
C12_Matched(path) ==
  IF path \in DOMAIN fields THEN {path}
  ELSE {n \in DOMAIN fields :
          Len(n) > Len(path) /\ \A i \in 1..Len(path) : n[i] = path[i]}

\* The Field of the field n as the schema declares it.
C12_Pristine(n) ==
  [error |-> SchemaError(n), name |-> n, value |-> SchemaValue(n),
   dirty |-> FALSE, initialValue |-> SchemaValue(n), touched |-> FALSE]

C12_Reset(path) ==
  /\ DOMAIN fields' = DOMAIN fields
  /\ \A n \in DOMAIN fields :
       IF n \in C12_Matched(path)
       THEN fields'[n] = C12_Pristine(n)
       ELSE fields'[n] = fields[n]
  /\ held \notin C12_Matched(path) => held' = held

\* C12: reset(path) with a non-empty path registers again the field named
\* path if there is one, otherwise the fields whose names start with path
\* and a dot: each of them ends with the schema's value and error, not
\* dirty and not touched; every other field keeps its Field object.
C12_ResetPath ==
  [][(log'[1].e = "reset" /\ log'[1].n # NoName) => C12_Reset(log'[1].n)]_vars

\* reset("nested") ran and left the changed field foo as it was.
C12_Witness ==
  /\ Op = "reset"
  /\ log[1].n = <<"nested">>
  /\ HasEv(log, "notify")
  /\ <<"foo">> \in DOMAIN fields
  /\ fields[<<"foo">>].value # fields[<<"foo">>].initialValue
  /\ fields[<<"nested", "bar">>] = C12_Pristine(<<"nested", "bar">>)

\* The step is an effective setFieldValue, a validateField that changed
\* the field's error, or a reset that matched a field.
C13_Change ==
  \/ log'[1].e = "setFieldValue" /\ HasEv(log', "onChange")
  \/ log'[1].e = "validateField" /\ HasEv(log', "notify")
  \/ log'[1].e = "reset" /\ HasEv(log', "notify")

\* The cached error set is the object it was.
C13_SameObject == mem'.errors = mem.errors /\ ~HasEv(log', "errors object")

C13_Step ==
  /\ C13_Change => ~Truthy(mem'.errors)
  /\ (Truthy(mem.errors) /\ ~C13_Change) => C13_SameObject
  /\ log'[1].e = "getErrors"
     => /\ Truthy(mem'.errors)
        /\ ~Truthy(mem.errors) => HasEv(log', "errors object")

\* C13: getErrors() returns the cached object as long as no effective
\* setFieldValue, no validateField that changes an error and no matching
\* reset happens; each of these drops the cached object, and the next
\* getErrors() makes a new one.
C13_ErrorsCached == [][C13_Step]_vars

\* getErrors() returned the object an earlier call had made.
C13_Witness ==
  /\ Op = "getErrors"
  /\ Len(log) = 1
  /\ mem.errors = EmptyObj

\* The error the validator of the field n yields for the field's value and
\* the model's values (undefined without a validator).
C14_ValidatorError(n) ==
  IF Get(utils[n], "validate") = Undefined THEN Undefined
  ELSE CallValidator(Get(utils[n], "validate").v, fields[n].value,
                     valuesFrom(FieldValues(Ctx)))

\* The non-empty validator errors, by field name.
C14_FieldErrors ==
  Obj([n \in {f \in DOMAIN fields : Truthy(C14_ValidatorError(f))} |->
         C14_ValidatorError(n)])

\* C14: getErrors() returns the map of the non-empty errors the validators
\* of the registered fields yield, overridden by the entries of the result
\* of the model-level validate(values, errors).
C14_ErrorsOfValidators ==
  getErrors(Ctx).errors =
    mergeErrors(C14_FieldErrors,
                CallModelValidate(options.validate,
                                  valuesFrom(FieldValues(Ctx)), C14_FieldErrors))

\* The node at path of the values tree is the value of the field named
\* path, or a non-empty group of such nodes.
RECURSIVE C15_Covered(_, _)
C15_Covered(node, path) ==
  IF path \in DOMAIN fields
  THEN fields[path].value # Undefined /\ node = fields[path].value
  ELSE /\ isObject(node)
       /\ DOMAIN node.m # {}
       /\ \A k \in DOMAIN node.m : C15_Covered(node.m[k], Append(path, k))

C15_Tree(values) ==
  /\ \A k \in DOMAIN values.m : C15_Covered(values.m[k], <<k>>)
  /\ \A n \in DOMAIN fields :
       (n # NoName /\ fields[n].value # Undefined)
       => retrieve(values, n) = fields[n].value

\* C15: `values` is the tree that holds, for each field whose value is not
\* undefined, that value at the field's path, and nothing else: no entry
\* for a field whose value is undefined; the cached tree is never stale.
C15_ValuesMirrorFields == C15_Tree(valuesOf(Ctx))

\* The cached tree was read after nested.bar was set and is undefined.
C15_Witness ==
  /\ Op = "values"
  /\ Truthy(mem.values)
  /\ <<"nested", "bar">> \in DOMAIN fields
  /\ fields[<<"nested", "bar">>].touched
  /\ fields[<<"nested", "bar">>].value = Undefined
  /\ fields[<<"foo">>].value # Undefined

C16_Step ==
  /\ log'[1].e = "validate"
     => Count(log', "notify") = (IF Truthy(mem.errors) THEN 0 ELSE 1)
  /\ (Op = "validate" /\ log'[1].e = "validate") => ~HasEv(log', "notify")

\* C16: validate() notifies the subscribers once when there is no cached
\* error set at the call and not at all when there is one; a validate()
\* right after a validate() does not notify.
C16_ValidateNotifiesOnce == [][C16_Step]_vars

\* validate() found the error set an earlier call had made, and did not
\* notify.
C16_Witness ==
  /\ Op = "validate"
  /\ Len(log) = 1
  /\ mem.errors = EmptyObj

\* What the validator of the field n returns (undefined without one).
C17_Result(n) ==
  IF Get(utils[n], "validate") = Undefined THEN Undefined
  ELSE CallValidator(Get(utils[n], "validate").v, fields[n].value, valuesOf(Ctx))

C17_Call(n) ==
  /\ Last(log') = Ev("return", n, C17_Result(n))
  /\ \A f \in DOMAIN fields : f # n => fields'[f] = fields[f]
  /\ IF C17_Result(n) # fields[n].error
     THEN /\ Count(log', "notify") = 1
          /\ fields'[n] # fields[n]
          /\ fields'[n].error = C17_Result(n)
     ELSE /\ ~HasEv(log', "notify")
          /\ fields' = fields

C17_Step ==
  /\ (log'[1].e = "validateField" /\ log'[1].n \in DOMAIN fields)
     => C17_Call(log'[1].n)
  /\ (Op = "validateField" /\ log'[1] = log[1]) => ~HasEv(log', "notify")

\* C17: validateField(name) returns what the field's validator returns
\* (undefined without a validator); it notifies the subscribers, once, and
\* stores a new Field with that error exactly when the result differs from
\* the field's error, and otherwise changes no Field and does not notify; a
\* validateField(name) right after a validateField(name) does not notify.
C17_ValidateField == [][C17_Step]_vars

\* validateField found an error the field did not have, and notified.
C17_Witness ==
  /\ Op = "validateField"
  /\ HasEv(log, "notify")
  /\ Last(log).e = "return"
  /\ Last(log).v # Undefined

\* Nothing but the log changes.
C18_NoEffect ==
  UNCHANGED <<schema, options, fields, utils, mem, state, submitting, store,
              pending, held>>

C18_Step ==
  /\ (/\ log'[1].e \in {"getField", "setFieldValue", "validateField"}
      /\ log'[1].n # NoName
      /\ log'[1].n \notin DOMAIN fields)
     => /\ log' = <<log'[1], Ev("throw", log'[1].n, Str("Missing model field"))>>
        /\ C18_NoEffect
  /\ (log'[1].e = "setFieldValue" /\ log'[1].n = NoName)
     => /\ log' = <<log'[1], Ev("console.warn", NoName, Undefined)>>
        /\ C18_NoEffect

\* C18: getField, setFieldValue and validateField with a non-empty name
\* that is no registered field (an unknown name, the name of a group) throw
\* the missing-field error, and setFieldValue with the empty name warns and
\* returns; neither changes anything nor calls a subscriber, a validator or
\* a callback.
C18_MissingFieldThrows == [][C18_Step]_vars

\* setFieldValue was called with the name of a group, and threw.
C18_Witness ==
  /\ Op = "setFieldValue"
  /\ log[1].n = <<"nested">>
  /\ <<"nested", "bar">> \in DOMAIN fields
  /\ Last(log).e = "throw"

\* C19: getField("") throws the missing-field error, whatever the schema.
C19_EmptyNameThrows ==
  (Op = "getField" /\ log[1].n = NoName) => HasEv(log, "throw")

\* The paths of the leaves of a schema node: the objects all of whose keys
\* are among value, error, parse and validate.
RECURSIVE C20_Leaves(_, _)
C20_Leaves(node, path) ==
  IF ~isObject(node) THEN {}
  ELSE IF DOMAIN node.m \subseteq {"value", "error", "parse", "validate"}
  THEN {path}
  ELSE UNION {C20_Leaves(node.m[k], Append(path, k)) : k \in DOMAIN node.m}

\* C20: after the construction of a model without stored data, the fields
\* are those named by the paths of the schema's leaves, one each and none
\* for a group; each has the leaf's value as value and initialValue, the
\* leaf's error, and is neither dirty nor touched.
C20_FieldPerLeaf ==
  (Op = "new" /\ store = <<>>)
  => /\ DOMAIN fields = C20_Leaves(schema, <<>>)
     /\ \A n \in DOMAIN fields : fields[n] = C12_Pristine(n)

\* A model was constructed whose schema has a leaf with an object as value.
C20_Witness ==
  /\ Op = "new"
  /\ store = <<>>
  /\ DOMAIN fields = {<<"list">>}
  /\ isObject(fields[<<"list">>].value)

\* The entry the storage holds under the name n, if it imports a value into
\* the field: an object whose value has the type of the schema value and
\* differs from it.
C21_Imports(n, entry) ==
  /\ entry.n = n
  /\ isObject(entry.f)
  /\ TypeOf(Get(entry.f, "value")) = TypeOf(SchemaValue(n))
  /\ Get(entry.f, "value") # SchemaValue(n)

C21_Imported(n) == {i \in DOMAIN store : C21_Imports(n, store[i])}

C21_FieldImported(n) ==
  /\ \A i \in C21_Imported(n) : fields[n].value = Get(store[i].f, "value")
  /\ fields[n].initialValue = SchemaValue(n)
  /\ fields[n].dirty

C21_FieldDefault(n) ==
  /\ fields[n].value = SchemaValue(n)
  /\ ~fields[n].dirty

\* C21: right after a construction that returned, every field with a storage
\* entry of the same type as, and different from, its schema value has the
\* stored value, the schema value as initialValue and is dirty; every other
\* field has its schema value and is not dirty, whatever else is stored.
C21_ImportPerField ==
  (Op = "new" /\ ~ConstructorThrew) =>
    \A n \in DOMAIN fields :
      IF C21_Imported(n) # {} THEN C21_FieldImported(n) ELSE C21_FieldDefault(n)

\* C22: the constructor never throws, whatever storage.load() returned.
C22_ConstructionReturns == ~ConstructorThrew

\* The place in the log of the one effect of the kind e.
C23_At(e) == CHOOSE i \in DOMAIN log : log[i].e = e

C23_Effects ==
  {"storage.clear", "_clearState", "_initializeFields", "storage.load",
   "onReset", "notify"}

\* The last step was a call of reset().
C23_ResetAll == Op = "reset" /\ log[1].n = NoName

\* Each effect of reset() happens once, the notification is the last one,
\* and the fields and the state are the reset ones from onReset on.
C23_Once ==
  /\ \A e \in C23_Effects : Count(log, e) = 1
  /\ C23_At("storage.clear") < C23_At("storage.load")
  /\ C23_At("_initializeFields") < C23_At("storage.load")
  /\ C23_At("storage.load") < C23_At("onReset")
  /\ C23_At("_clearState") < C23_At("onReset")
  /\ C23_At("onReset") + 1 = C23_At("notify")
  /\ C23_At("notify") = Len(log)
  /\ state = options.initialState
  /\ \A n \in DOMAIN fields : fields[n] = C12_Pristine(n)

\* C23 as stated: reset() clears the storage, registers the fields anew (the
\* storage being loaded after the clear), then resets the state, calls
\* onReset and notifies once.
C23_AsStated ==
  C23_ResetAll =>
    /\ C23_Once
    /\ C23_At("storage.clear") < C23_At("_initializeFields")
    /\ C23_At("storage.load") < C23_At("_clearState")

\* C23: reset() clears the storage, resets the state to options.initialState,
\* registers the fields anew, loads the storage, calls onReset and then
\* notifies once; onReset and the subscribers see the reset fields and state.
C23_ResetOrder ==
  C23_ResetAll =>
    /\ C23_Once
    /\ C23_At("storage.clear") < C23_At("_clearState")
    /\ C23_At("_clearState") < C23_At("_initializeFields")

\* reset() called while a submit call is suspended.
C23_Witness ==
  /\ C23_ResetAll
  /\ store = <<>>
  /\ pending.dirty > 0

\* The step is a call of reset(path) whose path matches no field.
C24_Unmatched ==
  /\ log'[1].e = "reset"
  /\ Len(log'[1].n) > 0
  /\ forFields(Ctx, log'[1].n) = <<>>

C24_NoEffect ==
  /\ UNCHANGED <<fields, utils, mem, state, submitting, store, pending, held>>
  /\ ~HasEv(log', "notify")
  /\ ~HasEv(log', "storage.save")

\* C24: reset(path) with a path that matches no field notifies nobody,
\* changes no Field, no cache and no submitted lock, and does not write to the
\* storage.
C24_UnmatchedResetSilent == [][C24_Unmatched => C24_NoEffect]_vars

\* The step is a reset() or a reset(path) that matches the field n.
C25_ResetOf(n) ==
  /\ log'[1].e = "reset"
  /\ (log'[1].n = NoName \/ n \in C12_Matched(log'[1].n))

C25_Step ==
  \A n \in DOMAIN fields :
    (fields[n].touched /\ ~C25_ResetOf(n))
      => (n \in DOMAIN fields' /\ fields'[n].touched)

\* C25: a field that is touched stays touched under every call (setFieldValue,
\* validateField, validate, getErrors, hasError, submit, setState) except a
\* reset() or a reset(path) that matches the field.
C25_TouchedStays == [][C25_Step]_vars

\* A touched field was set back to its initial value and is still touched.
C25_Witness ==
  /\ Op = "setFieldValue"
  /\ HasEv(log, "onChange")
  /\ fields[log[1].n].touched
  /\ fields[log[1].n].value = fields[log[1].n].initialValue

\* The update a setState step merges: the object given, or what the updater
\* given returns for the state before the step.
C29_Update(given) ==
  IF given = Fn("another") THEN Obj([another |-> Get(state, "val")]) ELSE given

\* state' has the keys of the update with the update's values, and the other
\* keys of state with their values.
C29_Merged(update) ==
  /\ DOMAIN state'.m = DOMAIN state.m \cup DOMAIN update.m
  /\ \A k \in DOMAIN update.m : state'.m[k] = update.m[k]
  /\ \A k \in DOMAIN state.m \ DOMAIN update.m : state'.m[k] = state.m[k]

C29_SetState ==
  log'[1].e = "setState"
    => /\ \E given \in StateUpdates : C29_Merged(C29_Update(given))
       /\ Count(log', "notify") = 1
       /\ UNCHANGED <<fields, mem, store, submitting>>

C29_Others ==
  IF log'[1].e = "reset" /\ log'[1].n = NoName
  THEN state' = options.initialState
  ELSE log'[1].e # "setState" => state' = state

\* C29: setState merges the object given, or the result of the updater given
\* applied to the current state, into the state key by key and notifies once;
\* reset() sets the state to options.initialState; no other call changes it.
C29_StateBag == [][C29_SetState /\ C29_Others]_vars

\* An updater's result was merged into a state that had other keys.
C29_Witness ==
  /\ Op = "setState"
  /\ Get(state, "val") = Str("test")
  /\ Get(state, "another") = Str("test")

\* The step is a submit call whose submit callback throws, or the rest of a
\* submit call whose promise was rejected.
C26_Failed ==
  \/ log'[1].e = "submit" /\ HasEv(log', "throws")
  \/ log'[1].e = "settle" /\ HasEv(log', "rejected")

\* The model after the step, as far as its values go.
C26_After == [Ctx EXCEPT !.fields = fields', !.mem = mem']

\* C26 as stated: when the submit callback throws or rejects, the Field
\* records and the values are after the call what they were before it.
C26_AsStated ==
  [][C26_Failed => (fields' = fields /\ valuesOf(C26_After) = valuesOf(Ctx))]_vars

C26_SameValues ==
  /\ DOMAIN fields' = DOMAIN fields
  /\ \A n \in DOMAIN fields :
       /\ fields'[n].name = fields[n].name
       /\ fields'[n].value = fields[n].value
       /\ fields'[n].initialValue = fields[n].initialValue
  /\ valuesOf(C26_After) = valuesOf(Ctx)
  /\ UNCHANGED <<schema, options, utils, state, store>>

C26_Unlocked ==
  /\ ~submitting'
  /\ mem'.submitted = Bool(FALSE)

\* Nothing but the validation of submit changes a Field: the failure itself,
\* which is all a rejection's step is, leaves every Field as it is.
C26_Handling == HasEv(log', "rejected") => fields' = fields

\* C26: when the submit callback throws or rejects, every field's value and
\* initialValue, the values, the state and the stored data are after the call
\* what they were before it; the failure changes only the submitting flag and
\* the submitted lock, the Fields differing at most in what the validation
\* before the submit callback wrote to them.
C26_FailureKeepsValues ==
  [][C26_Failed => (C26_SameValues /\ C26_Unlocked /\ C26_Handling)]_vars

\* The submit callback threw for a model with a changed field.
C26_Witness ==
  /\ Op = "submit"
  /\ HasEv(log, "throws")
  /\ \E n \in DOMAIN fields : fields[n].value # fields[n].initialValue

\* C27: insert leaves the tree it is given, and every mapping in it, as they
\* were, and the tree it returns holds the value at the key.
C27_InsertKeepsInput ==
  (util.fn = "insert" /\ util.done) =>
    /\ util.input = util.obj
    /\ Len(util.key) > 0 => retrieve(util.result, util.key) = util.value

\* The value at the path in the tree: undefined as soon as a value on the way
\* is no mapping.
RECURSIVE C28_ValueAt(_, _)
C28_ValueAt(tree, path) ==
  IF path = <<>> THEN tree
  ELSE IF ~isObject(tree) THEN Undefined
  ELSE C28_ValueAt(Get(tree, Head(path)), Tail(path))

\* C28: retrieve returns the tree for the empty key, the value at the key when
\* every value on the way is a mapping, and undefined as soon as one is not;
\* it leaves the tree as it was.
C28_RetrieveValueAt ==
  (util.fn = "retrieve" /\ util.done) =>
    /\ util.result = C28_ValueAt(util.obj, util.key)
    /\ util.input = util.obj

\* C30: the Form's submit handler resets the model only when the submission
\* succeeded (the submit callback was called and returned, onSubmit was
\* called): not after a submit the validation rejected, not after a submit
\* the submitted lock cut short, not after a submit callback that failed.
C30_ResetOnlyOnSuccess ==
  (Op = "handleSubmit" /\ HasEv(log, "onReset")) => HasEv(log, "onSubmit")

\* The place in the log l of the one effect of the kind e.
C31_At(l, e) == CHOOSE i \in DOMAIN l : l[i].e = e

\* The model after the step, as far as a validator sees it.
C31_After == [Ctx EXCEPT !.fields = fields', !.mem = mem', !.utils = utils']

\* The step is a setFieldValue call that changes the field's value.
C31_Effective == log'[1].e = "setFieldValue" /\ HasEv(log', "onChange")

\* Save, onChange and the notification happen once each and in this order,
\* after every call of a validator; what is saved are the fields as the call
\* leaves them.
C31_Order ==
  /\ Count(log', "storage.save") = 1
  /\ Count(log', "onChange") = 1
  /\ Count(log', "notify") = 1
  /\ \A i \in DOMAIN log' :
       log'[i].e = "validator" => i < C31_At(log', "storage.save")
  /\ C31_At(log', "storage.save") < C31_At(log', "onChange")
  /\ C31_At(log', "onChange") + 1 = C31_At(log', "notify")
  /\ C31_At(log', "notify") = Len(log')
  /\ store' = savedFields(C31_After)

\* The Field of the name n after the step: the candidate value, touched, and
\* the other fields as they were.
C31_Replaced(n) ==
  /\ fields'[n].value = log'[C31_At(log', "candidate")].v
  /\ fields'[n].value # fields[n].value
  /\ fields'[n].touched
  /\ fields'[n].initialValue = fields[n].initialValue
  /\ \A m \in DOMAIN fields : m # n => fields'[m] = fields[m]

\* With shouldValidate the field's validator, if it has one, is called once
\* with the new value and its result is the field's error; without, no
\* validator is called and the error is the one before.
C31_Validated(n, shouldValidate) ==
  IF shouldValidate
  THEN /\ Count(log', "validator")
            = IF Truthy(Get(utils[n], "validate")) THEN 1 ELSE 0
       /\ \A i \in DOMAIN log' :
            log'[i].e = "validator"
              => (log'[i].n = n /\ log'[i].v = fields'[n].value)
       /\ fields'[n].error = validationError(C31_After, fields'[n])
  ELSE /\ Count(log', "validator") = 0
       /\ fields'[n].error = fields[n].error
       /\ fields'[n].dirty = (fields'[n].value # fields'[n].initialValue)

\* C31: a setFieldValue call that changes the value replaces the Field (new
\* value, touched) and, with shouldValidate, validates it against the new
\* value; then it saves the fields, then calls onChange, then notifies; each
\* once.  Without shouldValidate no validator is called and the error stays.
C31_ChangeOrder ==
  [][C31_Effective =>
       /\ C31_Order
       /\ C31_Replaced(log'[1].n)
       /\ C31_Validated(log'[1].n, log'[1].v = Bool(TRUE))]_vars

\* A value was set with validation, and the validator found an error.
C31_Witness ==
  /\ Op = "setFieldValue"
  /\ log[1].v = Bool(TRUE)
  /\ HasEv(log, "validator")
  /\ HasEv(log, "onChange")
  /\ Truthy(fields[log[1].n].error)

\* The submitted lock is set.
C32_Locked == Truthy(mem.submitted)

\* The step is one of those that take the lock off: a setFieldValue that
\* changes a value, reset(), a reset(path) that matches a field, or a submit
\* callback that throws or whose promise is rejected.
C32_Unlocks ==
  \/ log'[1].e = "setFieldValue" /\ HasEv(log', "onChange")
  \/ log'[1].e = "reset" /\ log'[1].n = NoName
  \/ log'[1].e = "reset" /\ C12_Matched(log'[1].n) # {}
  \/ log'[1].e = "submit" /\ HasEv(log', "throws")
  \/ log'[1].e = "settle" /\ HasEv(log', "rejected")

\* A submit call on a locked model returns undefined and does nothing else.
C32_SilentSubmit ==
  (C32_Locked /\ log'[1].e = "submit")
    => /\ log' = <<log'[1], Ev("resolve", NoName, Undefined)>>
       /\ UNCHANGED <<fields, utils, mem, state, submitting, store, held>>

\* A submit call on a model that is not locked locks it, unless the submit
\* callback throws.
C32_SubmitLocks ==
  (~C32_Locked /\ log'[1].e = "submit" /\ ~HasEv(log', "throws"))
    => mem'.submitted = Bool(TRUE)

\* Every other step leaves a lock that is set as it is.
C32_Kept == (C32_Locked /\ ~C32_Unlocks) => mem'.submitted = mem.submitted

\* C32: every submit that passes the lock test sets the lock, which stays set
\* after a successful and after a validation-rejected submission; a submit
\* on the locked model returns undefined, silently; only a setFieldValue that
\* changes a value, reset(), a matching reset(path) or a failing submit
\* callback take the lock off.
C32_SubmittedLock ==
  [][C32_SilentSubmit /\ C32_SubmitLocks /\ C32_Kept]_vars

\* A reset(path) that matched no field left the lock set.
C32_Witness ==
  /\ C32_Locked
  /\ Op = "reset"
  /\ log[1].n # NoName
  /\ ~HasEv(log, "notify")

\* The subscribers that only read the model they are called with.
C35_Readers == {"watcher", "renderer"}

\* The subscribers called in the log l, in the order of the calls.
C35_Called(l) ==
  [i \in 1..Count(l, "called") |-> SelectSeq(l, LAMBDA ev : ev.e = "called")[i].n[1]]

\* The sequence s, k times over.
RECURSIVE C35_Rounds(_, _)
C35_Rounds(s, k) == IF k = 0 THEN <<>> ELSE s \o C35_Rounds(s, k - 1)

\* Only subscribers of the set are called.
C35_OnlySubscribed ==
  \A i \in DOMAIN log' :
    log'[i].e = "called" => \E j \in DOMAIN subs : subs[j] = log'[i].n[1]

\* With subscribers that only read, every notification of a call of the model
\* calls each of them once, in the order of the set.
C35_EachOnceInOrder ==
  (/\ \A j \in DOMAIN subs : subs[j] \in C35_Readers
   /\ log'[1].e \notin {"_subscribe", "unsubscribe"})
    => /\ C35_Called(log') = C35_Rounds(subs, Count(log', "notify"))
       /\ subs' = subs

\* Subscribing appends to the set, unsubscribing takes the one subscriber
\* out of it; neither notifies.
C35_SetKept ==
  /\ log'[1].e = "_subscribe"
       => /\ subs' = IF \E j \in DOMAIN subs : subs[j] = log'[1].n[1]
                     THEN subs ELSE Append(subs, log'[1].n[1])
          /\ ~HasEv(log', "notify")
  /\ log'[1].e = "unsubscribe"
       => /\ subs' = SelectSeq(subs, LAMBDA s : s # log'[1].n[1])
          /\ ~HasEv(log', "notify")

\* C35: a notification calls every subscriber of the set once, in the order
\* of subscription; a subscriber that has unsubscribed is out of the set and
\* is called by no later notification, the others staying in it.
C35_Subscriptions ==
  [][C35_OnlySubscribed /\ C35_EachOnceInOrder /\ C35_SetKept]_vars

\* A submit call notified two subscribers twice each.
C35_Witness ==
  /\ Op = "submit"
  /\ subs = <<"renderer", "watcher">>
  /\ C35_Called(log) = <<"renderer", "watcher", "renderer", "watcher">>

\* The calls of subscribers in the log after the place i.
C33_CalledAfter(i) == {k \in DOMAIN log : k > i /\ log[k].e = "called"}

\* The call at the place k is one of the calls the notification at the place
\* i owes the subscribers: one of the first Len(subs) calls after it.
C33_InLoop(i, k) ==
  /\ k \in C33_CalledAfter(i)
  /\ Cardinality({m \in C33_CalledAfter(i) : m <= k}) <= Len(subs)

\* C33: when a subscriber changes the model from its callback, the
\* notification of that change starts only after the notification under way
\* has called all subscribers.
C33_NestedNotifyAfterLoop ==
  Op = "setFieldValue" =>
    \A i \in DOMAIN log, k \in DOMAIN log :
      (log[i].e = "notify" /\ C33_InLoop(i, k))
        => ~\E n \in DOMAIN log : i < n /\ n < k /\ log[n].e = "notify"

\* C34: the subscribers are told of a submission that has begun only once the
\* model is locked, so that a submit call from the callback of a subscriber
\* does nothing: a submit call during which no subscriber changes the model
\* calls the submit callback once at most.
C34_SubmitFnOnce ==
  (/\ Op = "submit"
   /\ \A i \in DOMAIN log : log[i].e = "called" => log[i].n # <<"setter">>)
    => Count(log, "submitFn") <= 1

\* The step is a call of setFieldValue or validateField for a field.
C36_CallFor ==
  /\ log'[1].e \in {"setFieldValue", "validateField"}
  /\ log'[1].n \in DOMAIN fields

\* Every field but n has the Field it had, and an observer of such a field
\* still holds the Field that getField returns.
C36_OthersKept(n) ==
  /\ DOMAIN fields' = DOMAIN fields
  /\ \A m \in DOMAIN fields : m # n => fields'[m] = fields[m]
  /\ held # n => held' = held
  /\ \A i \in DOMAIN log' : log'[i].e = "replaced" => log'[i].n = n

\* C36: setFieldValue(name, ...) and validateField(name) replace the Field of
\* name only: for every other field getField returns the instance it returned
\* before the call.
C36_OnlyNamedField == [][C36_CallFor => C36_OthersKept(log'[1].n)]_vars

\* A field was changed while an observer held the Field of another one.
C36_Witness ==
  /\ Op = "setFieldValue"
  /\ HasEv(log, "onChange")
  /\ held \in DOMAIN fields
  /\ held # log[1].n

\* C37 as stated: a call that leaves a Field other than it was notifies the
\* subscribers before it returns.
C37_AsStated ==
  [][fields' # fields => HasEv(log', "notify")]_vars

\* The effects with which a call writes Fields: a validator's result, the
\* replacement of a Field an observer holds, the registration of the fields.
C37_Writes == {"validator", "replaced", "_initializeFields"}

\* A notification follows every such effect of the step.
C37_NotifiedAfter ==
  \A i \in DOMAIN log' :
    log'[i].e \in C37_Writes
      => \E j \in DOMAIN log' : j > i /\ log'[j].e = "notify"

\* C37: a call other than getErrors and hasError that leaves a Field other
\* than it was notifies the subscribers after it wrote the Fields and before
\* it returns; getErrors and hasError never notify.
C37_ReplacementNotifies ==
  [][IF log'[1].e \in {"getErrors", "hasError"}
     THEN ~HasEv(log', "notify")
     ELSE fields' # fields => (HasEv(log', "notify") /\ C37_NotifiedAfter)]_vars

\* A validateField call stored a new error and notified.
C37_Witness ==
  /\ Op = "validateField"
  /\ HasEv(log, "notify")
  /\ Truthy(fields[log[1].n].error)

\* The model new Model(schema, options) makes when the storage is empty.
C38_Fresh == construct(schema, options, <<>>)

\* C38: after reset() the model is what a new model of the same schema and
\* options is when the storage is empty: the same Fields, the same state, the
\* same result of getErrors and of hasError, and the same Fields after them.
C38_ResetAsConstructed ==
  (Op = "reset" /\ log[1].n = NoName) =>
    /\ fields = C38_Fresh.fields
    /\ state = C38_Fresh.state
    /\ state = options.initialState
    /\ getErrors(Ctx).errors = getErrors(C38_Fresh).errors
    /\ hasError(Ctx).result = hasError(C38_Fresh).result
    /\ getErrors(Ctx).c.fields = getErrors(C38_Fresh).c.fields

\* C39: a field is touched exactly when its value was changed by
\* setFieldValue or it was validated by validateField since it was registered:
\* after the construction and after reset() no field is touched, the storage
\* import included; after a setFieldValue call that changed its value and
\* after a validateField call the field is touched.
C39_TouchedIffChangedOrValidated ==
  /\ Op = "new" => \A n \in DOMAIN fields : ~fields[n].touched
  /\ (Op = "reset" /\ log[1].n = NoName)
       => \A n \in DOMAIN fields : ~fields[n].touched
  /\ (Op = "setFieldValue" /\ HasEv(log, "onChange"))
       => fields[log[1].n].touched
  /\ (Op = "validateField" /\ log[1].n \in DOMAIN fields)
       => fields[log[1].n].touched

\* The model new Model(schema, options) makes of what the storage holds.
C40_Loaded == construct(schema, options, store)

\* C40: once a model has saved its fields, a model made of the same schema
\* from what was saved has the same value for every field.
C40_SaveLoadRoundTrip ==
  (Op = "setFieldValue" /\ HasEv(log, "storage.save"))
    => \A n \in DOMAIN fields : C40_Loaded.fields[n].value = fields[n].value

====
